---- MODULE Spec2Model ----
(***************************************************************************)
(* Model of minisweagent/environments/docker.py: DockerEnvironment, a      *)
(* session object that starts (or attaches to) one container, executes     *)
(* commands in it through child processes of the runtime executable, and   *)
(* tears the container down with a detached shell pipeline.                *)
(*                                                                         *)
(* Python values are modelled as follows.                                  *)
(*   str           a sequence of one-character strings; a literal that is  *)
(*                 never taken apart is a one-element sequence <<"exec">>  *)
(*   None / value  None == <<>> and Some(v) == <<v>>                       *)
(*   list[str]     a sequence of str                                       *)
(*   dict          a sequence of <<key, value>> pairs with distinct keys   *)
(*                 (a dict iterates in insertion order)                    *)
(*   os.environ    a function from names to None / Some(value)             *)
(* A child process is a record of what was invoked (argv, timeout, whether *)
(* the caller waits for it); what the child does (exit code, output,       *)
(* exceeding the timeout) is chosen by the environment.                    *)
(***************************************************************************)
EXTENDS Integers, Sequences, FiniteSets, TLC

VARIABLES
    phase,         \* "new" | "ready" | "init_failed" | "released"
    kwargs,        \* the keyword arguments given to __init__
    hostenv,       \* os.environ of the host process
    config,        \* self.config: None until config_class(**kwargs) returned
    container_id,  \* self.container_id
    ctor,          \* what __init__ did: exception raised, children spawned, their outcomes
    last,          \* the last execute / cleanup / __del__ call: arguments, result, children
    launched,      \* every detached teardown pipeline launched so far
    cleanupCalls,  \* number of cleanup() calls so far (explicit ones and __del__'s)
    timedOutOn     \* history: None, or the identifier the first timed-out execute targeted

vars ==
    <<phase, kwargs, hostenv, config, container_id, ctor, last, launched, cleanupCalls,
      timedOutOn>>

-----------------------------------------------------------------------------
(* Bounds of the model *)

MaxFwd == 2
MaxEnv == 2
MaxCleanups == 2

(* Program constants *)

DefaultTimeout == 30
DefaultPullTimeout == 120
InspectTimeout == 10

-----------------------------------------------------------------------------
(* Python values *)

None == <<>>
Some(v) == <<v>>
Val(o) == o[1]

EmptyStr == <<>>
Lit(s) == <<s>>

Names == {<<"A">>, <<"B">>}
HostValue == <<"h">>
EnvValue == <<"e">>

IsSpace(c) == c \in {" ", "\n", "\t"}

RECURSIVE LStrip(_)
LStrip(s) ==
    IF s # <<>> /\ IsSpace(Head(s)) THEN LStrip(Tail(s)) ELSE s

RECURSIVE RStrip(_)
RStrip(s) ==
    IF s # <<>> /\ IsSpace(s[Len(s)]) THEN RStrip(SubSeq(s, 1, Len(s) - 1)) ELSE s

\* str.strip()
Strip(s) == RStrip(LStrip(s))

RECURSIVE SplitFrom(_, _, _)
SplitFrom(s, cur, acc) ==
    IF s = <<>>
    THEN IF cur = <<>> THEN acc ELSE Append(acc, cur)
    ELSE IF IsSpace(Head(s))
         THEN SplitFrom(Tail(s), <<>>, IF cur = <<>> THEN acc ELSE Append(acc, cur))
         ELSE SplitFrom(Tail(s), Append(cur, Head(s)), acc)

\* str.split(): the maximal runs of non-whitespace characters
Split(s) == SplitFrom(s, <<>>, <<>>)

RECURSIVE LStripSlash(_)
\* str.lstrip('/')
LStripSlash(s) ==
    IF s # <<>> /\ Head(s) = "/" THEN LStripSlash(Tail(s)) ELSE s

\* the truth value of a None-or-str
TruthyStr(o) == o # None /\ Val(o) # EmptyStr

\* the truth value of a None-or-int
TruthyInt(o) == o # None /\ Val(o) # 0

-----------------------------------------------------------------------------
(* Child processes *)

\* what a child process does: it exits with rc and stdout, or it exceeds the timeout
Exit(rc, out) == [kind |-> "exit", rc |-> rc, stdout |-> out]
TimedOut == [kind |-> "timeout", rc |-> 0, stdout |-> EmptyStr]
NotRun == [kind |-> "notrun", rc |-> 0, stdout |-> EmptyStr]

\* subprocess.run(argv, timeout=t, check=c): the caller waits for the child
RunChild(argv, t, c) ==
    [argv |-> argv, timeout |-> Some(t), check |-> c, waited |-> TRUE, shell |-> FALSE]

\* subprocess.Popen(cmd, shell=True): the caller does not wait for the child
PopenShell(cmd) ==
    [argv |-> <<cmd>>, timeout |-> None, check |-> FALSE, waited |-> FALSE, shell |-> TRUE]

\* the exception subprocess.run(..., check=True) raises for the child's outcome
CheckedRunRaises(o) ==
    IF o.kind = "timeout" THEN "TimeoutExpired"
    ELSE IF o.rc # 0 THEN "CalledProcessError"
    ELSE "none"

-----------------------------------------------------------------------------
(* DockerEnvironmentConfig *)

RECURSIVE SeqsUpTo(_, _)
\* the sequences over S of length at most n
SeqsUpTo(S, n) ==
    IF n = 0 THEN {<<>>}
    ELSE LET shorter == SeqsUpTo(S, n - 1)
         IN  shorter \cup {Append(q, x) : q \in {r \in shorter : Len(r) = n - 1}, x \in S}

DistinctKeys(d) == \A i, j \in 1..Len(d) : i # j => d[i][1] # d[j][1]

\* dict[str, str] values of the env option
EnvDicts == {d \in SeqsUpTo({<<n, EnvValue>> : n \in Names}, MaxEnv) : DistinctKeys(d)}

\* list[str] values of the forward_env option
ForwardLists == SeqsUpTo(Names, MaxFwd)

ConfiguredId == <<"w", "e", "b">>
FullId == <<"a", "b", "c">>

\* the keyword arguments, with the dataclass defaults filled in for the options
\* that are not varied
ValidKwargs ==
    [image : {Some(Lit("alpine"))},
     cwd : {Lit("/")},
     env : EnvDicts,
     forward_env : ForwardLists,
     timeout : {DefaultTimeout},
     executable : {Lit("docker")},
     run_args : {<<Lit("--rm")>>},
     container_timeout : {Lit("2h")},
     pull_timeout : {DefaultPullTimeout},
     container_id : {None, Some(ConfiguredId)}]

\* image has no default: keyword arguments without it
InvalidKwargs ==
    [image |-> None, cwd |-> Lit("/"), env |-> <<>>, forward_env |-> <<>>,
     timeout |-> DefaultTimeout, executable |-> Lit("docker"), run_args |-> <<Lit("--rm")>>,
     container_timeout |-> Lit("2h"), pull_timeout |-> DefaultPullTimeout,
     container_id |-> None]

\* config_class(**kwargs): raises TypeError when the required image is missing
ConfigRaises(kw) == IF kw.image = None THEN "TypeError" ELSE "none"

Cfg == Val(config)

-----------------------------------------------------------------------------
(* _start_container *)

\* what the create invocation can do: print the new container's id, print
\* nothing, exit non-zero, exceed the pull timeout
CreateOutcomes ==
    {Exit(0, FullId \o <<"\n">>), Exit(0, EmptyStr), Exit(1, EmptyStr), TimedOut}

StartCmd(cfg) ==
    <<cfg.executable, Lit("run"), Lit("-d"), Lit("--name"), Lit("minisweagent-xxxxxxxx"),
      Lit("-w"), cfg.cwd>> \o cfg.run_args
      \o <<Val(cfg.image), Lit("sleep"), cfg.container_timeout>>

\* the exception _start_container raises, the identifier it assigns and the
\* children it spawns, when the create invocation does o
StartContainer(cfg, o) ==
    LET child == RunChild(StartCmd(cfg), cfg.pull_timeout, TRUE)
        raised == CheckedRunRaises(o)
    IN  [raised |-> raised,
         id |-> IF raised = "none" THEN Some(Strip(o.stdout)) ELSE None,
         spawned |-> <<child>>]

-----------------------------------------------------------------------------
(* _attach_to_container *)

TrueStr == <<"t", "r", "u", "e">>
FalseStr == <<"f", "a", "l", "s", "e">>

\* what the running-state probe can do
CheckOutcomes ==
    {Exit(0, TrueStr \o <<"\n">>), Exit(0, FalseStr \o <<"\n">>), Exit(1, EmptyStr), TimedOut}

\* what the identifier/name probe can do: two tokens, one token (empty name),
\* three tokens, no output, non-zero exit (the container is gone), timeout
InfoOutcomes ==
    {Exit(0, FullId \o <<" ", "/", "n", "\n">>),
     Exit(0, FullId \o <<" ", "\n">>),
     Exit(0, FullId \o <<" ", "/", "n", " ", "x", "\n">>),
     Exit(1, EmptyStr),
     TimedOut}

InspectCmd(cfg, format, cid) ==
    <<cfg.executable, Lit("inspect"), Lit("-f"), Lit(format), cid>>

\* lines 97-114: the running-state probe; the exception it ends in
CheckRunningRaises(o1) ==
    IF CheckedRunRaises(o1) # "none" THEN "RuntimeError"
    ELSE IF Strip(o1.stdout) # TrueStr THEN "RuntimeError"
    ELSE "none"

\* line 132: full_id, name = result_info.stdout.strip().split()
UnpackRaises(tokens) == IF Len(tokens) # 2 THEN "ValueError" ELSE "none"

\* lines 124-137: the identifier/name probe; the exception it ends in and the
\* identifier it assigns
GetInfo(o2) ==
    LET tokens == Split(Strip(o2.stdout))
        raised == IF CheckedRunRaises(o2) # "none" THEN CheckedRunRaises(o2)
                  ELSE UnpackRaises(tokens)
    IN  [raised |-> raised,
         id |-> IF raised = "none" THEN Some(tokens[1]) ELSE None,
         name |-> IF raised = "none" THEN LStripSlash(tokens[2]) ELSE EmptyStr]

\* an early assignment of the identifier, before the probes have succeeded
AttachAssignsEarly(cfg, cid, o1, o2) ==
    LET c1 == RunChild(InspectCmd(cfg, "{{.State.Running}}", cid), InspectTimeout, TRUE)
        c2 == RunChild(InspectCmd(cfg, "{{.Id}} {{.Name}}", cid), InspectTimeout, TRUE)
    IN  IF CheckRunningRaises(o1) # "none"
        THEN [raised |-> CheckRunningRaises(o1), id |-> None, spawned |-> <<c1>>]
        ELSE [raised |-> GetInfo(o2).raised,
              id |-> IF GetInfo(o2).raised = "none" THEN GetInfo(o2).id ELSE Some(cid),
              spawned |-> <<c1, c2>>]

\* the exception _attach_to_container raises, the identifier it assigns and the
\* children it spawns, when the two probes do o1 and o2
AttachToContainer(cfg, cid, o1, o2) ==
    LET c1 == RunChild(InspectCmd(cfg, "{{.State.Running}}", cid), InspectTimeout, TRUE)
        c2 == RunChild(InspectCmd(cfg, "{{.Id}} {{.Name}}", cid), InspectTimeout, TRUE)
    IN  IF CheckRunningRaises(o1) # "none"
        THEN [raised |-> CheckRunningRaises(o1), id |-> None, spawned |-> <<c1>>]
        ELSE [raised |-> GetInfo(o2).raised, id |-> GetInfo(o2).id, spawned |-> <<c1, c2>>]

-----------------------------------------------------------------------------
(* __init__ *)

NoCall ==
    [op |-> "none", command |-> EmptyStr, cwd |-> EmptyStr, timeout |-> None,
     raised |-> "none", ret |-> None, spawned |-> <<>>, child |-> NotRun]

NoCtor == [raised |-> "none", spawned |-> <<>>, o1 |-> NotRun, o2 |-> NotRun]

\* lines 47-50: attach when a container_id is configured, start otherwise
StartOrAttach(cfg, o1, o2) ==
    IF cfg.container_id # None
    THEN AttachToContainer(cfg, Val(cfg.container_id), o1, o2)
    ELSE StartContainer(cfg, o1)

Construct ==
    /\ phase = "new"
    /\ \E o1 \in CreateOutcomes \cup CheckOutcomes, o2 \in InfoOutcomes :
         /\ o1 \in (IF kwargs.container_id # None THEN CheckOutcomes ELSE CreateOutcomes)
         /\ IF ConfigRaises(kwargs) # "none"
            THEN /\ config' = None
                 /\ container_id' = None
                 /\ ctor' = [raised |-> ConfigRaises(kwargs), spawned |-> <<>>,
                             o1 |-> NotRun, o2 |-> NotRun]
                 /\ phase' = "init_failed"
            ELSE LET res == StartOrAttach(kwargs, o1, o2)
                 IN  /\ config' = Some(kwargs)
                     /\ container_id' = res.id
                     /\ ctor' = [raised |-> res.raised, spawned |-> res.spawned,
                                 o1 |-> o1,
                                 o2 |-> IF Len(res.spawned) = 2 THEN o2 ELSE NotRun]
                     /\ phase' = IF res.raised = "none" THEN "ready" ELSE "init_failed"
    /\ UNCHANGED <<kwargs, hostenv, last, launched, cleanupCalls, timedOutOn>>

-----------------------------------------------------------------------------
(* execute *)

Commands == {Lit("pwd")}
CwdArgs == {EmptyStr, Lit("/tmp")}
TimeoutArgs == {None, Some(0), Some(5)}

\* what the exec child can do: exit 0 with output, exit 7 without, exceed the timeout
ExecOutcomes == {Exit(0, <<"x", "\n">>), Exit(7, EmptyStr), TimedOut}

\* line 143: cwd = cwd or self.config.cwd
ResolveCwd(cwd) == IF cwd # EmptyStr THEN cwd ELSE Cfg.cwd

\* a precondition that lets the empty identifier through
ContainerStartedNotNone == container_id # None

\* line 144: assert self.container_id
ContainerStarted == TruthyStr(container_id)

\* a default that replaces only a missing timeout
EffectiveTimeoutIfNone(timeout) == IF timeout # None THEN Val(timeout) ELSE Cfg.timeout

\* line 157: timeout=timeout or self.config.timeout
EffectiveTimeout(timeout) == IF TruthyInt(timeout) THEN Val(timeout) ELSE Cfg.timeout

\* os.getenv(key)
GetEnv(key) == hostenv[key]

\* a forwarding that injects an empty value for a name the host does not set
RECURSIVE ForwardInjectionsDefaultEmpty(_)
ForwardInjectionsDefaultEmpty(fwd) ==
    IF fwd = <<>> THEN <<>>
    ELSE <<Lit("-e"),
           Head(fwd) \o <<"=">> \o (IF GetEnv(Head(fwd)) # None THEN Val(GetEnv(Head(fwd))) ELSE EmptyStr)>>
         \o ForwardInjectionsDefaultEmpty(Tail(fwd))

\* lines 147-149: one -e key=value per forward_env entry that the host sets
RECURSIVE ForwardInjections(_)
ForwardInjections(fwd) ==
    IF fwd = <<>> THEN <<>>
    ELSE (IF GetEnv(Head(fwd)) # None
          THEN <<Lit("-e"), Head(fwd) \o <<"=">> \o Val(GetEnv(Head(fwd)))>>
          ELSE <<>>)
         \o ForwardInjections(Tail(fwd))

\* lines 150-151: one -e key=value per env item
RECURSIVE EnvInjections(_)
EnvInjections(env) ==
    IF env = <<>> THEN <<>>
    ELSE <<Lit("-e"), Head(env)[1] \o <<"=">> \o Head(env)[2]>> \o EnvInjections(Tail(env))

\* lines 146-152: the exec invocation
ExecCmd(cwd, command) ==
    <<Cfg.executable, Lit("exec"), Lit("-w"), cwd>>
      \o ForwardInjections(Cfg.forward_env)
      \o EnvInjections(Cfg.env)
      \o <<Val(container_id), Lit("bash"), Lit("-lc"), command>>

\* a run that checks the exit code
ExecRaisesChecked(o) == CheckedRunRaises(o)

\* lines 154-162: subprocess.run without check: only the timeout raises
ExecRaises(o) == IF o.kind = "timeout" THEN "TimeoutExpired" ELSE "none"

\* line 163
ExecResult(o) == [output |-> o.stdout, returncode |-> o.rc]

\* an execute that gives the container up when the command times out
IdAfterExecuteDetach(raised) == IF raised = "TimeoutExpired" THEN None ELSE container_id

\* execute assigns nothing: the identifier after a call that ended in raised
IdAfterExecute(raised) == container_id

Execute(command, cwd, timeout, o) ==
    /\ phase \in {"ready", "init_failed"}
    /\ config # None
    /\ LET raised == IF ContainerStarted THEN ExecRaises(o) ELSE "AssertionError"
       IN  /\ last' = [op |-> "execute", command |-> command, cwd |-> cwd, timeout |-> timeout,
                       raised |-> raised,
                       ret |-> IF raised = "none" THEN Some(ExecResult(o)) ELSE None,
                       spawned |-> IF ContainerStarted
                                   THEN <<RunChild(ExecCmd(ResolveCwd(cwd), command),
                                                   EffectiveTimeout(timeout), FALSE)>>
                                   ELSE <<>>,
                       child |-> IF ContainerStarted THEN o ELSE NotRun]
           /\ container_id' = IdAfterExecute(raised)
           /\ timedOutOn' = IF raised = "TimeoutExpired" /\ timedOutOn = None
                            THEN container_id ELSE timedOutOn
    /\ UNCHANGED <<phase, kwargs, hostenv, config, ctor, launched, cleanupCalls>>

-----------------------------------------------------------------------------
(* cleanup and __del__ *)

\* line 168: the teardown pipeline
TeardownCmd ==
    <<"(timeout 60 ">> \o Cfg.executable \o <<" stop ">> \o Val(container_id) \o <<" || ">>
      \o Cfg.executable \o <<" rm -f ">> \o Val(container_id) \o <<") >/dev/null 2>&1 &">>

\* a cleanup that launches the teardown only the first time
CleanupLaunchOnce ==
    IF container_id # None /\ launched = <<>> THEN <<PopenShell(TeardownCmd)>> ELSE <<>>

\* a cleanup without the guard on the identifier: None is formatted as "None"
CleanupLaunchUnguarded ==
    <<PopenShell(<<"(timeout 60 docker stop ">>
                 \o (IF container_id # None THEN Val(container_id) ELSE Lit("None")))>>

\* lines 167-169: the children cleanup launches
CleanupLaunch ==
    IF container_id # None THEN <<PopenShell(TeardownCmd)>> ELSE <<>>

\* a cleanup that forgets the identifier once the teardown is launched
IdAfterCleanupCleared == None

\* cleanup assigns nothing
IdAfterCleanup == container_id

\* lines 167-168: getattr(self, "container_id", None) cannot fail; self.config is
\* read only when the identifier is not None, and fails if config was never assigned
CleanupRaises ==
    IF container_id # None /\ config = None THEN "AttributeError" ELSE "none"

\* one call of cleanup(), made as op, leaving the session in newPhase
CleanupCall(op, newPhase) ==
    /\ launched' = launched \o (IF CleanupRaises = "none" THEN CleanupLaunch ELSE <<>>)
    /\ last' = [op |-> op, command |-> EmptyStr, cwd |-> EmptyStr, timeout |-> None,
                raised |-> CleanupRaises, ret |-> None,
                spawned |-> IF CleanupRaises = "none" THEN CleanupLaunch ELSE <<>>,
                child |-> NotRun]
    /\ cleanupCalls' = cleanupCalls + 1
    /\ phase' = newPhase
    /\ container_id' = IdAfterCleanup
    /\ UNCHANGED <<kwargs, hostenv, config, ctor, timedOutOn>>

Cleanup ==
    /\ phase \in {"ready", "init_failed"}
    /\ cleanupCalls < MaxCleanups
    /\ CleanupCall("cleanup", phase)

\* lines 171-173: the release of the session object
Del ==
    /\ phase \in {"ready", "init_failed"}
    /\ CleanupCall("__del__", "released")

-----------------------------------------------------------------------------
(* The session *)

\* os.environ: each name is unset or set; B, when set, is set to the empty string
HostEnvs ==
    {[n \in Names |-> IF n \in set THEN Some(IF n = <<"B">> THEN EmptyStr ELSE HostValue) ELSE None] :
        set \in SUBSET Names}

Init ==
    /\ phase = "new"
    /\ kwargs \in ValidKwargs \cup {InvalidKwargs}
    /\ hostenv \in HostEnvs
    /\ config = None
    /\ container_id = None
    /\ ctor = NoCtor
    /\ last = NoCall
    /\ launched = <<>>
    /\ cleanupCalls = 0
    /\ timedOutOn = None

Next ==
    \/ Construct
    \/ \E command \in Commands, cwd \in CwdArgs, timeout \in TimeoutArgs, o \in ExecOutcomes :
         Execute(command, cwd, timeout, o)
    \/ Cleanup
    \/ Del

Spec == Init /\ [][Next]_vars

-----------------------------------------------------------------------------
(* Reading an invocation back *)

\* the container an exec invocation targets: argv ends in <id> bash -lc <command>
ExecTarget(child) == child.argv[Len(child.argv) - 3]

\* the number of -e injections of an exec invocation, and the j-th of them
NumInjections(child) == (Len(child.argv) - 8) \div 2
Injection(child, j) == child.argv[4 + 2 * j]
InjectionFlag(child, j) == child.argv[3 + 2 * j]

\* the variable an injection name=value sets
InjectionKey(inj) == <<inj[1]>>

\* the positions of the forward_env entries whose name the host sets
ForwardedPositions == {i \in 1..Len(Cfg.forward_env) : hostenv[Cfg.forward_env[i]] # None}

ExecSpawned == last.op = "execute" /\ last.spawned # <<>>

-----------------------------------------------------------------------------
(* Properties *)

C2_AttachFailureLeavesIdUnset ==
    (phase # "new" /\ kwargs.container_id # None)
        => /\ ctor.raised # "none" => container_id = None
           /\ container_id # None =>
                /\ ctor.raised = "none"
                /\ Len(ctor.spawned) = 2
                /\ ctor.o1.kind = "exit" /\ ctor.o1.rc = 0
                /\ ctor.o1.stdout = TrueStr \o <<"\n">>
                /\ ctor.o2.kind = "exit" /\ ctor.o2.rc = 0
                /\ Len(Split(ctor.o2.stdout)) = 2
                /\ container_id = Some(Split(ctor.o2.stdout)[1])

C2_Witness ==
    /\ kwargs.container_id # None
    /\ ctor.raised = "ValueError"
    /\ Len(ctor.spawned) = 2
    /\ container_id = None
    /\ phase = "released"

\* C3: a timed-out execute raises TimeoutExpired and leaves identifier and
\* configuration as they were; every execute after it passes the precondition
\* and issues its exec invocation against the same identifier.
C3_TimeoutKeepsSession ==
    /\ (last.op = "execute" /\ last.child.kind = "timeout")
         => (last.raised = "TimeoutExpired" /\ timedOutOn # None)
    /\ timedOutOn # None
         => /\ container_id = timedOutOn
            /\ config = Some(kwargs)
            /\ last.op = "execute"
                 => /\ last.raised \in {"none", "TimeoutExpired"}
                    /\ Len(last.spawned) = 1
                    /\ ExecTarget(last.spawned[1]) = Val(timedOutOn)

C3_Witness ==
    /\ timedOutOn # None
    /\ last.op = "execute"
    /\ last.raised = "none"
    /\ last.child.rc = 7
    /\ cleanupCalls > 0

\* C4: cleanup never raises and never waits: with the identifier None it spawns
\* nothing; with the identifier set it launches one detached shell pipeline and
\* does not wait for it; this holds for every call of a row of calls.
C4_CleanupNeverRaises ==
    /\ last.op \in {"cleanup", "__del__"}
         => /\ last.raised = "none"
            /\ container_id = None => last.spawned = <<>>
            /\ container_id # None
                 => /\ Len(last.spawned) = 1
                    /\ last.spawned[1].shell
                    /\ ~last.spawned[1].waited
                    /\ last.spawned[1].timeout = None
    /\ \A i \in 1..Len(launched) : ~launched[i].waited
    /\ container_id = None => launched = <<>>

C4_Witness ==
    /\ last.op = "cleanup"
    /\ cleanupCalls = MaxCleanups
    /\ ctor.raised = "TypeError"
    /\ config = None
    /\ container_id = None
    /\ launched = <<>>

\* C5: in the exec invocation every forward_env entry whose name the host sets
\* gives exactly one injection name=value with the host's value, an entry whose
\* name the host does not set gives none, every env item is injected after all
\* of these, and for a name in both lists the last injection, the one that takes
\* effect, carries the env value.
C5_ForwardThenEnv ==
    ExecSpawned =>
        LET c == last.spawned[1]
            nF == Cardinality(ForwardedPositions)
            rank(i) == Cardinality({k \in ForwardedPositions : k <= i})
        IN  /\ Len(c.argv) = 8 + 2 * (nF + Len(Cfg.env))
            /\ \A j \in 1..NumInjections(c) : InjectionFlag(c, j) = Lit("-e")
            /\ \A i \in ForwardedPositions :
                 Injection(c, rank(i))
                     = Cfg.forward_env[i] \o <<"=">> \o Val(hostenv[Cfg.forward_env[i]])
            /\ \A j \in 1..nF : hostenv[InjectionKey(Injection(c, j))] # None
            /\ \A k \in 1..Len(Cfg.env) :
                 Injection(c, nF + k) = Cfg.env[k][1] \o <<"=">> \o Cfg.env[k][2]
            /\ \A k \in 1..Len(Cfg.env) :
                 LET js == {j \in 1..NumInjections(c) :
                               InjectionKey(Injection(c, j)) = Cfg.env[k][1]}
                     lastj == CHOOSE j \in js : \A j2 \in js : j2 <= j
                 IN  Injection(c, lastj) = Cfg.env[k][1] \o <<"=">> \o Cfg.env[k][2]

C5_Witness ==
    /\ ExecSpawned
    /\ Cfg.forward_env = <<<<"B">>, <<"A">>>>
    /\ hostenv[<<"A">>] = Some(HostValue)
    /\ hostenv[<<"B">>] = None
    /\ Cfg.env = <<<<<<"A">>, EnvValue>>>>
    /\ NumInjections(last.spawned[1]) = 2

\* C6: when the exec child runs to completion, execute raises nothing and
\* returns a record of exactly two fields, the combined output and the child's
\* exit code (the key "returncode"), for zero and non-zero exit codes alike.
C6_ExitCodeIsData ==
    (last.op = "execute" /\ last.child.kind = "exit")
        => /\ last.raised = "none"
           /\ last.ret # None
           /\ DOMAIN Val(last.ret) = {"output", "returncode"}
           /\ Val(last.ret).output = last.child.stdout
           /\ Val(last.ret).returncode = last.child.rc

C6_Witness ==
    /\ last.op = "execute"
    /\ last.child.kind = "exit"
    /\ last.child.rc = 7
    /\ last.raised = "none"
    /\ Val(last.ret).returncode = 7

\* C7: every failed runtime invocation of start or attach (non-zero exit or
\* timeout of the create invocation or of either inspect invocation) surfaces
\* as the wrapped session-level error; no CalledProcessError or TimeoutExpired
\* of subprocess escapes from the constructor.
C7_FailuresAreWrapped ==
    (phase # "new" /\ ctor.spawned # <<>>)
        => ctor.raised \notin {"CalledProcessError", "TimeoutExpired"}

\* C8: the identifier is written at most once, by the successful start or attach
\* of the constructor (attach exactly when a container_id is configured), and no
\* execute or cleanup call changes or clears it afterwards.
C8_IdWrittenOnce ==
    [][/\ container_id # None => container_id' = container_id
       /\ container_id' # container_id
            => /\ phase = "new" /\ phase' = "ready"
               /\ ctor'.raised = "none"
       /\ (phase = "new" /\ phase' # "new" /\ ctor'.spawned # <<>>)
            => /\ kwargs.container_id # None
                    => (\A i \in 1..Len(ctor'.spawned) :
                            ctor'.spawned[i].argv[2] = Lit("inspect"))
               /\ kwargs.container_id = None
                    => (Len(ctor'.spawned) = 1 /\ ctor'.spawned[1].argv[2] = Lit("run"))
       /\ phase # "new" => ctor' = ctor]_vars

C8_Witness ==
    /\ container_id = Some(FullId)
    /\ kwargs.container_id # None
    /\ timedOutOn # None
    /\ cleanupCalls = MaxCleanups
    /\ phase = "released"

\* C9 as stated: over the lifetime of a session with a set identifier the
\* teardown pipeline is launched exactly once, whatever explicit cleanup calls
\* precede the release.
C9_TeardownLaunchedOnce ==
    (phase = "released" /\ container_id # None) => Len(launched) = 1

\* C9 amended: every cleanup call on a session with a set identifier, the
\* explicit ones and the one made by the release, launches the teardown pipeline
\* again, each for the session's identifier: launches = cleanup calls.
C9_TeardownLaunchedPerCall ==
    /\ Len(launched) = (IF container_id = None THEN 0 ELSE cleanupCalls)
    /\ \A i \in 1..Len(launched) : launched[i] = PopenShell(TeardownCmd)
    /\ (phase = "released" /\ container_id # None) => Len(launched) >= 1

C9_Witness ==
    /\ phase = "released"
    /\ container_id # None
    /\ cleanupCalls = 3
    /\ Len(launched) = 3

\* C10 as stated: the exec invocation's timeout is the supplied timeout whenever
\* one is supplied, 0 included, and the working directory is the supplied cwd
\* whenever one is supplied.
C10_SuppliedAlwaysWins ==
    ExecSpawned =>
        /\ last.timeout # None => last.spawned[1].timeout = last.timeout
        /\ last.timeout = None => last.spawned[1].timeout = Some(Cfg.timeout)
        /\ last.spawned[1].argv[4] = (IF last.cwd # EmptyStr THEN last.cwd ELSE Cfg.cwd)

\* C10 amended: the timeout is the supplied one when it is supplied and not 0,
\* and the configured one when none or 0 is supplied; the working directory is
\* the supplied cwd when it is non-empty and the configured one otherwise.
C10_SuppliedNonZeroWins ==
    ExecSpawned =>
        /\ (last.timeout # None /\ Val(last.timeout) # 0)
             => last.spawned[1].timeout = last.timeout
        /\ (last.timeout = None \/ last.timeout = Some(0))
             => last.spawned[1].timeout = Some(Cfg.timeout)
        /\ last.spawned[1].argv[3] = Lit("-w")
        /\ last.spawned[1].argv[4] = (IF last.cwd # EmptyStr THEN last.cwd ELSE Cfg.cwd)

C10_Witness ==
    /\ ExecSpawned
    /\ last.timeout = Some(0)
    /\ last.spawned[1].timeout = Some(DefaultTimeout)
    /\ last.cwd = Lit("/tmp")
    /\ last.spawned[1].argv[4] = Lit("/tmp")

====
